---- MODULE Spec2Model ----
(***************************************************************************)
(* Smart-play: the live signal engine (strategy.py,                        *)
(* NiftyIntradayStrategy.generate_signal) and the backtest simulator       *)
(* (backtesting.py, Backtester.run_backtest), the indicator and synthetic  *)
(* Greeks computations, the dashboard's refresh handlers (app.py) and the  *)
(* login (auth.py, AuthManager).                                           *)
(*                                                                         *)
(* Numbers.  Option Greeks and their thresholds are decimals in the source *)
(* (0.5, 0.1, 0.05); the model holds them multiplied by 100 as integers,   *)
(* which keeps every comparison of the source.  Prices, RSI, the moving    *)
(* average and the volatility index are integers.  Percent conditions on   *)
(* prices are compared after multiplying through by the positive entry     *)
(* price, so no division is rounded.                                       *)
(*                                                                         *)
(* Optional values.  A Python None and a pandas NaN are the empty sequence *)
(* <<>>; a present value v is <<v>>.                                       *)
(***************************************************************************)
EXTENDS Integers, Sequences, FiniteSets, TLC

VARIABLES
    \* ---- NiftyIntradayStrategy (strategy.py) ----
    greeks_data,        \* self.greeks_data: <<>> (None) or <<[call |-> .., put |-> ..]>>
    vix,                \* self.vix: <<>> (None) or <<v>>
    historical_data,    \* self.historical_data: [isNone, rows]; rows holds the latest bar
    last_signal,        \* self.last_signal: "NONE" (None), "BUY" or "SELL"
    now,                \* the clock value read by the last generate_signal call (seconds of day)
    sig_pc,             \* "ready" | "returned" | "raised"
    sig_result,         \* the value generate_signal returned ("NONE" is Python's None)
    \* ---- Backtester (backtesting.py) ----
    price_data,         \* self.price_data: the annotated candles, in index order
    strategy_params,    \* self.strategy_params
    risk_management,    \* self.risk_management
    trades,             \* self.trades
    equity_curve,       \* self.equity_curve
    metrics,            \* self.metrics
    bt_pc,              \* position of run_backtest: "idle","loop","exit","entry","equity","done"
    i,                  \* loop index of run_backtest (0-based, as in the source)
    capital,            \* local capital
    position,           \* local position: 0, 1, -1
    entry_price,        \* local entry_price
    entry_time,         \* local entry_time (<<>> while unbound)
    signal,             \* local signal of the current bar
    opened,             \* history: positions opened in the current run
    evaluated,          \* history: indices of the bars evaluated in the current run
    first_run,          \* the trades and equity curve of an earlier instance, <<>> if none
    \* ---- the indicator computation (_calculate_rsi, calculate_indicators) ----
    prices,             \* the close column handed to the computation
    period,             \* the window length
    rsi_series,         \* the RSI column computed, <<>> before the computation
    ma_series,          \* the moving-average column computed, <<>> before the computation
    \* ---- the live dashboard (app.py) and the broker (angel_api.py) ----
    is_connected,       \* angel_api.is_connected
    current_position,   \* strategy.current_position: <<>> (None) or <<netqty>>
    signals,            \* st.session_state.signals
    auto_trading,       \* st.session_state.auto_trading
    last_update,        \* st.session_state.last_update: <<>> (None) or <<clock value>>
    clock,              \* datetime.now(), in seconds since midnight
    order_log,          \* history: the place_order attempts of the latest handler
    exec_log,           \* history: the execute_trade calls of the latest handler
    runs,               \* history: the number of run_strategy calls made
    manual_orders,      \* history: the number of Buy / Sell button presses
    \* ---- AuthManager (auth.py) ----
    credentials,        \* the credentials file: username -> <<>> or <<[password, totp_key]>>
    current_user,       \* self.current_user: <<>> (None) or <<username>>
    api,                \* self.api: <<>> (None) or <<[is_connected |-> ..]>>
    login_result,       \* the (success, message) of the latest login call, <<>> before any
    granted             \* history: a login returned success and no logout came since

strategy_vars == <<greeks_data, vix, historical_data, last_signal, now, sig_pc, sig_result>>

backtest_vars == <<price_data, strategy_params, risk_management, trades, equity_curve,
                   metrics, bt_pc, i, capital, position, entry_price, entry_time,
                   signal, opened, evaluated>>

pipeline_vars == <<first_run>>

indicator_vars == <<prices, period, rsi_series, ma_series>>

live_vars == <<is_connected, current_position, signals, auto_trading, last_update,
               clock, order_log, exec_log, runs, manual_orders>>

auth_vars == <<credentials, current_user, api, login_result, granted>>

vars == <<strategy_vars, backtest_vars, pipeline_vars, indicator_vars, live_vars, auth_vars>>

\* What an action of the signal engine alone, or of the backtester alone, leaves as it is.
beyond_strategy == <<backtest_vars, pipeline_vars, indicator_vars, live_vars, auth_vars>>

beyond_backtest == <<strategy_vars, pipeline_vars, indicator_vars, live_vars, auth_vars>>

None == <<>>

Some(v) == <<v>>

IsNone(x) == x = <<>>

Val(x) == x[1]

(***************************************************************************)
(* strategy.py: NiftyIntradayStrategy                                      *)
(***************************************************************************)

\* __init__: thresholds read from the environment, with these defaults (x100 for Greeks).
delta_threshold == 50

gamma_threshold == 10

theta_threshold == 5

vega_threshold == 10

vix_buy_threshold == 20

vix_sell_threshold == 30

RSI_MIDLINE == 50

\* is_trading_hours: the window's ends, from the environment defaults.
TRADING_START_HOUR == 9

TRADING_START_MINUTE == 15

TRADING_END_HOUR == 15

TRADING_END_MINUTE == 30

SecondsOfDay(h, m, s) == (h * 60 + m) * 60 + s

\* is_trading_hours: start_time <= now <= end_time, both ends at second 0.
is_trading_hours(t) ==
    /\ SecondsOfDay(TRADING_START_HOUR, TRADING_START_MINUTE, 0) <= t
    /\ t <= SecondsOfDay(TRADING_END_HOUR, TRADING_END_MINUTE, 0)

\* `not self.greeks_data`: None (or an empty dict) is falsy.
greeks_missing(g) == IsNone(g)

\* self.historical_data.iloc[-1] raises AttributeError on None and IndexError on an
\* empty frame; line 140 stands before the try block, so the exception leaves
\* generate_signal.
latest_row_raises(h) == h.isNone \/ h.rows = <<>>

\* self.historical_data.iloc[-1].notna().all()
latest_row_complete(h) ==
    LET row == h.rows[Len(h.rows)]
    IN  ~IsNone(row.close) /\ ~IsNone(row.rsi) /\ ~IsNone(row.ma)

\* A mutant of buy_conditions: the delta test made non-strict.
buy_conditions_delta_ge(g, v, row) ==
    /\ g.call.delta >= delta_threshold
    /\ g.call.gamma > gamma_threshold
    /\ Val(row.rsi) > RSI_MIDLINE
    /\ Val(row.close) > Val(row.ma)
    /\ g.call.theta < theta_threshold
    /\ g.call.vega > vega_threshold
    /\ v < vix_buy_threshold

\* Lines 164-174: the three BUY filters.
buy_conditions(g, v, row) ==
    LET delta_gamma_buy == /\ g.call.delta > delta_threshold
                           /\ g.call.gamma > gamma_threshold
                           /\ Val(row.rsi) > RSI_MIDLINE
                           /\ Val(row.close) > Val(row.ma)
        theta_vega_buy  == /\ g.call.theta < theta_threshold
                           /\ g.call.vega > vega_threshold
        vix_buy         == v < vix_buy_threshold
    IN  delta_gamma_buy /\ theta_vega_buy /\ vix_buy

\* A mutant of sell_conditions: the put gamma compared as the call gamma is.
sell_conditions_gamma_above(g, v, row) ==
    /\ g.put.delta < -delta_threshold
    /\ g.put.gamma > gamma_threshold
    /\ Val(row.rsi) < RSI_MIDLINE
    /\ Val(row.close) < Val(row.ma)
    /\ g.put.theta > theta_threshold
    /\ g.put.vega < -vega_threshold
    /\ v > vix_sell_threshold

\* Lines 178-188: the three SELL filters.
sell_conditions(g, v, row) ==
    LET delta_gamma_sell == /\ g.put.delta < -delta_threshold
                            /\ g.put.gamma < -gamma_threshold
                            /\ Val(row.rsi) < RSI_MIDLINE
                            /\ Val(row.close) < Val(row.ma)
        theta_vega_sell  == /\ g.put.theta > theta_threshold
                            /\ g.put.vega < -vega_threshold
        vix_sell         == v > vix_sell_threshold
    IN  delta_gamma_sell /\ theta_vega_sell /\ vix_sell

\* A mutant of decide_signal: the two labels exchanged.
decide_signal_swapped(g, v, row) ==
    IF buy_conditions(g, v, row) THEN "SELL"
    ELSE IF sell_conditions(g, v, row) THEN "BUY"
    ELSE "NONE"

\* Lines 190-199: BUY first, SELL second, else None.
decide_signal(g, v, row) ==
    IF buy_conditions(g, v, row) THEN "BUY"
    ELSE IF sell_conditions(g, v, row) THEN "SELL"
    ELSE "NONE"

Returned(s) == [outcome |-> "returned", signal |-> s]

Raised == [outcome |-> "raised", signal |-> "NONE"]

\* A mutant of generate_signal_outcome: the data checks made before the hours check.
generate_signal_data_first(t, g, v, h) ==
    IF greeks_missing(g) THEN Returned("NONE")
    ELSE IF latest_row_raises(h) THEN Raised
    ELSE IF ~latest_row_complete(h) THEN Returned("NONE")
    ELSE IF ~is_trading_hours(t) THEN Returned("NONE")
    ELSE IF IsNone(v) THEN Returned("NONE")
    ELSE Returned(decide_signal(Val(g), Val(v), h.rows[Len(h.rows)]))

\* generate_signal, lines 134-210, as a function of the clock and the object's fields.
\* Comparing self.vix = None with a float raises TypeError inside the try block;
\* the except clause returns None.
generate_signal_outcome(t, g, v, h) ==
    IF ~is_trading_hours(t) THEN Returned("NONE")
    ELSE IF greeks_missing(g) THEN Returned("NONE")
    ELSE IF latest_row_raises(h) THEN Raised
    ELSE IF ~latest_row_complete(h) THEN Returned("NONE")
    ELSE IF IsNone(v) THEN Returned("NONE")
    ELSE Returned(decide_signal(Val(g), Val(v), h.rows[Len(h.rows)]))

\* ---- the inputs of the signal engine ----

Times == { SecondsOfDay(9, 14, 59), SecondsOfDay(9, 15, 0), SecondsOfDay(12, 0, 0),
           SecondsOfDay(15, 30, 0), SecondsOfDay(15, 30, 1) }

CallGreeks == [delta : {50, 95}, gamma : {10, 20}, theta : {-10, 5}, vega : {10, 20}]

PutGreeks == [delta : {-95, -50}, gamma : {-20, 20}, theta : {5, 10}, vega : {-20, -10}]

GreeksValues == {None} \cup { Some([call |-> c, put |-> p]) : c \in CallGreeks, p \in PutGreeks }

\* fetch_data, line 80: self.vix = greeks_data.get('vix', 0), 0 when the key is absent.
VixValues == {Some(0), Some(15), Some(20), Some(30), Some(35)}

LatestRows == [close : {None, Some(100)},
               rsi   : {None, Some(40), Some(50), Some(60)},
               ma    : {None, Some(99), Some(101)}]

HistoricalValues ==
    {[isNone |-> TRUE, rows |-> <<>>], [isNone |-> FALSE, rows |-> <<>>]}
    \cup { [isNone |-> FALSE, rows |-> <<r>>] : r \in LatestRows }

\* __init__, lines 24-32.
StrategyFresh ==
    /\ greeks_data = None
    /\ vix = None
    /\ historical_data = [isNone |-> TRUE, rows |-> <<>>]
    /\ last_signal = "NONE"
    /\ now = 0
    /\ sig_pc = "ready"
    /\ sig_result = "NONE"

\* The fields generate_signal reads, as __init__ and fetch_data leave them: self.vix
\* is assigned whenever the Greeks were fetched, and keeps its earlier value (None
\* at first) when they were not.
StrategyInputs ==
    /\ greeks_data \in GreeksValues
    /\ vix \in (IF IsNone(greeks_data) THEN {None} \cup VixValues ELSE VixValues)
    /\ historical_data \in HistoricalValues
    /\ last_signal = "NONE"
    /\ now = 0
    /\ sig_pc = "ready"
    /\ sig_result = "NONE"

\* One call of generate_signal.
GenerateSignal ==
    /\ sig_pc = "ready"
    /\ \E t \in Times :
         LET out == generate_signal_outcome(t, greeks_data, vix, historical_data)
         IN  /\ now' = t
             /\ sig_pc' = out.outcome
             /\ sig_result' = out.signal
             /\ last_signal' = IF out.signal # "NONE" THEN out.signal ELSE last_signal
    /\ UNCHANGED <<greeks_data, vix, historical_data>>
    /\ UNCHANGED beyond_strategy

\* get_option_greeks, nse_data.py lines 213-217: the 'vix' key of the snapshot, set
\* only when fetch_india_vix returned a truthy value (a failed fetch and a reading of
\* 0 both leave the key out).
SnapshotVixValues == {None, Some(15), Some(20), Some(30), Some(35)}

\* fetch_data, line 80: self.vix = self.greeks_data.get('vix', 0).
vix_of_snapshot(snapshot_vix) == IF IsNone(snapshot_vix) THEN Some(0) ELSE snapshot_vix

\* fetch_data, lines 68-104, on a fresh strategy: the Greeks snapshot is stored; when
\* it is missing the method returns before it touches the other fields.
FetchData ==
    /\ sig_pc = "ready"
    /\ greeks_data = None
    /\ vix = None
    /\ \E g \in GreeksValues, snapshot_vix \in SnapshotVixValues, h \in HistoricalValues :
         /\ greeks_data' = g
         /\ vix' = IF IsNone(g) THEN vix ELSE vix_of_snapshot(snapshot_vix)
         /\ historical_data' = IF IsNone(g) THEN historical_data ELSE h
    /\ UNCHANGED <<last_signal, now, sig_pc, sig_result>>
    /\ UNCHANGED beyond_strategy

(***************************************************************************)
(* backtesting.py: Backtester                                              *)
(***************************************************************************)

\* The longest candle sequence of the model.
MaxBars == 3

\* run_backtest, line 162.
INITIAL_CAPITAL == 100000

MinuteOfDay(h, m) == h * 60 + m

MinutesPerDay == 24 * 60

\* A timestamp is a number of minutes since midnight of the first day;
\* current_time.time() is its minute of the day.
time_of(ts) == ts % MinutesPerDay

\* A mutant of outside_trading_hours: the session end of the live engine, 15:30.
outside_trading_hours_late_end(ts) ==
    time_of(ts) < MinuteOfDay(9, 15) \/ time_of(ts) > MinuteOfDay(15, 30)

\* Lines 175-176: a bar before 09:15 or after 15:15 is skipped.
outside_trading_hours(ts) ==
    time_of(ts) < MinuteOfDay(9, 15) \/ time_of(ts) > MinuteOfDay(15, 15)

\* A comparison with NaN is False.
Lt(a, b) == ~IsNone(a) /\ ~IsNone(b) /\ Val(a) < Val(b)

\* _check_strategy_signal, lines 249-292, on one row.
check_strategy_signal(current, params) ==
    LET delta_gamma_long  == /\ current.call_delta > params.DELTA_THRESHOLD
                             /\ current.call_gamma > params.GAMMA_THRESHOLD
        delta_gamma_short == /\ current.put_delta < -params.DELTA_THRESHOLD
                             /\ current.put_gamma > params.GAMMA_THRESHOLD
        theta_vega_long   == /\ current.call_theta < -params.THETA_THRESHOLD
                             /\ current.call_vega > params.VEGA_THRESHOLD
        theta_vega_short  == /\ current.put_theta < -params.THETA_THRESHOLD
                             /\ current.put_vega > params.VEGA_THRESHOLD
        rsi_long          == Lt(current.rsi, Some(params.RSI_OVERSOLD))
        rsi_short         == Lt(Some(params.RSI_OVERBOUGHT), current.rsi)
        ma_long           == Lt(current.ma, Some(current.close))
        ma_short          == Lt(Some(current.close), current.ma)
        vix_filter        == current.india_vix < params.VIX_THRESHOLD
        long_signal       == delta_gamma_long /\ theta_vega_long /\ rsi_long
                             /\ ma_long /\ vix_filter
        short_signal      == delta_gamma_short /\ theta_vega_short /\ rsi_short
                             /\ ma_short /\ vix_filter
    IN  IF long_signal THEN 1 ELSE IF short_signal THEN -1 ELSE 0

\* Line 186: pnl_percent = ((current_price / entry_price) - 1) * 100 * position,
\* kept as the fraction num / den with den = entry_price > 0.
pnl_percent(current_price, entry, pos) ==
    [num |-> (current_price - entry) * 100 * pos, den |-> entry]

\* A mutant of exit_condition: the stop-loss test made strict.
exit_condition_strict_stop(pnl, risk) ==
    \/ pnl.num < -risk.STOP_LOSS_PERCENT * pnl.den
    \/ pnl.num >= risk.TAKE_PROFIT_PERCENT * pnl.den

\* Lines 189-190: exit on stop loss or take profit.
exit_condition(pnl, risk) ==
    \/ pnl.num <= -risk.STOP_LOSS_PERCENT * pnl.den
    \/ pnl.num >= risk.TAKE_PROFIT_PERCENT * pnl.den

\* Line 204.
exit_reason(pnl) == IF pnl.num < 0 THEN "SL" ELSE "TP"

\* Lines 196-205 and 232-241: a trade record.
trade_record(etime, xtime, eprice, xprice, pos, reason) ==
    [entry_time  |-> etime,
     exit_time   |-> xtime,
     entry_price |-> eprice,
     exit_price  |-> xprice,
     position    |-> IF pos = 1 THEN "LONG" ELSE "SHORT",
     pnl         |-> (xprice - eprice) * pos,
     pnl_percent |-> pnl_percent(xprice, eprice, pos),
     exit_reason |-> reason]

\* A mutant of may_enter: no entry on the bar that has just closed a position.
may_enter_not_after_exit(pos, sig) ==
    /\ pos = 0
    /\ sig # 0
    /\ ~(trades # <<>> /\ trades[Len(trades)].exit_time = price_data[i + 1].timestamp)

\* A mutant of may_enter: an entry signal taken whatever the position.
may_enter_any(pos, sig) == sig # 0

\* Line 210.
may_enter(pos, sig) == pos = 0 /\ sig # 0

\* A mutant of current_equity: the realized capital alone.
current_equity_realized_only(cap, pos, close, entry) == cap

\* Lines 216-219: realized capital plus the open position's unrealized P&L.
current_equity(cap, pos, close, entry) ==
    IF pos # 0 THEN cap + (close - entry) * pos ELSE cap

\* __init__, lines 35-51, with the environment's defaults (Greeks x100).
default_strategy_params ==
    [DELTA_THRESHOLD |-> 50, GAMMA_THRESHOLD |-> 10, THETA_THRESHOLD |-> 5,
     VEGA_THRESHOLD |-> 10, RSI_OVERSOLD |-> 30, RSI_OVERBOUGHT |-> 70,
     VIX_THRESHOLD |-> 25]

default_risk_management == [STOP_LOSS_PERCENT |-> 1, TAKE_PROFIT_PERCENT |-> 2]

\* ---- the inputs of the backtest ----

\* GAMMA_THRESHOLD set by the environment to 0.03: the synthetic gamma of
\* simulate_option_greeks stays in [0.01, 0.05], below the default 0.1.
StrategyParamValues ==
    { [default_strategy_params EXCEPT !.GAMMA_THRESHOLD = 3] }

\* STOP_LOSS_PERCENT / TAKE_PROFIT_PERCENT as the environment may set them:
\* the defaults, and a pair no price of the model reaches.
RiskValues ==
    { default_risk_management, [STOP_LOSS_PERCENT |-> 100, TAKE_PROFIT_PERCENT |-> 100] }

Closes == {99, 100, 102}

\* Synthetic Greeks as simulate_option_greeks leaves them after a rise.
GreeksColumns ==
    [call_delta |-> 60, put_delta |-> -60, call_gamma |-> 4, put_gamma |-> 4,
     call_theta |-> -11, put_theta |-> -11, call_vega |-> 19, put_vega |-> 19,
     india_vix |-> 15]

\* (rsi, ma): oversold above the average, overbought below it, neither.
Indicators == { <<Some(25), Some(98)>>, <<Some(75), Some(103)>>, <<Some(50), Some(100)>> }

Row(ts, close, ind) ==
    [timestamp |-> ts, close |-> close, rsi |-> ind[1], ma |-> ind[2],
     call_delta |-> GreeksColumns.call_delta, put_delta |-> GreeksColumns.put_delta,
     call_gamma |-> GreeksColumns.call_gamma, put_gamma |-> GreeksColumns.put_gamma,
     call_theta |-> GreeksColumns.call_theta, put_theta |-> GreeksColumns.put_theta,
     call_vega |-> GreeksColumns.call_vega, put_vega |-> GreeksColumns.put_vega,
     india_vix |-> GreeksColumns.india_vix]

\* What a bar may hold: one bar a day, inside the session at 09:15 with any
\* indicators, or outside it at 15:30 before the indicators are defined.
Shapes ==
    { [tod |-> MinuteOfDay(9, 15), close |-> c, ind |-> ind] : c \in Closes, ind \in Indicators }
    \cup { [tod |-> MinuteOfDay(15, 30), close |-> c, ind |-> <<None, None>>] : c \in Closes }

\* Every candle sequence of 1..longest bars, timestamps strictly increasing.
PriceDataValues(longest) ==
    UNION { { [k \in 1..n |-> Row((k - 1) * MinutesPerDay + s[k].tod, s[k].close, s[k].ind)] :
                s \in [1..n -> Shapes] } : n \in 1..longest }

\* Backtester.__init__, lines 53-56, before any run.
BacktesterFresh ==
    /\ trades = <<>>
    /\ equity_curve = <<>>
    /\ metrics = None
    /\ bt_pc = "idle"
    /\ i = 0
    /\ capital = 0
    /\ position = 0
    /\ entry_price = 0
    /\ entry_time = None
    /\ signal = 0
    /\ opened = 0
    /\ evaluated = <<>>

BacktesterIdle ==
    /\ price_data = <<>>
    /\ strategy_params = default_strategy_params
    /\ risk_management = default_risk_management
    /\ BacktesterFresh

BacktestInputs ==
    /\ price_data \in PriceDataValues(MaxBars)
    /\ strategy_params \in StrategyParamValues
    /\ risk_management \in RiskValues
    /\ BacktesterFresh

\* price_data.iloc[k] / price_data.index[k], k 0-based.
iloc(k) == price_data[k + 1]

\* run_backtest, lines 161-167.
RunBacktestStart ==
    /\ bt_pc = "idle"
    /\ capital' = INITIAL_CAPITAL
    /\ position' = 0
    /\ entry_price' = 0
    /\ entry_time' = None
    /\ equity_curve' = <<[timestamp |-> iloc(0).timestamp, equity |-> INITIAL_CAPITAL]>>
    /\ i' = 1
    /\ signal' = 0
    /\ opened' = 0
    /\ evaluated' = <<>>
    /\ bt_pc' = "loop"
    /\ UNCHANGED <<price_data, strategy_params, risk_management, trades, metrics>>
    /\ UNCHANGED beyond_backtest

\* Lines 170-177: a bar outside trading hours is skipped.
LoopSkip ==
    /\ bt_pc = "loop"
    /\ i < Len(price_data)
    /\ outside_trading_hours(iloc(i).timestamp)
    /\ i' = i + 1
    /\ UNCHANGED <<price_data, strategy_params, risk_management, trades, equity_curve,
                   metrics, bt_pc, capital, position, entry_price, entry_time, signal,
                   opened, evaluated>>
    /\ UNCHANGED beyond_backtest

\* Lines 170-180: a bar inside trading hours is evaluated, signal first.
LoopCheckSignal ==
    /\ bt_pc = "loop"
    /\ i < Len(price_data)
    /\ ~outside_trading_hours(iloc(i).timestamp)
    /\ signal' = check_strategy_signal(iloc(i), strategy_params)
    /\ evaluated' = Append(evaluated, i)
    /\ bt_pc' = "exit"
    /\ UNCHANGED <<price_data, strategy_params, risk_management, trades, equity_curve,
                   metrics, i, capital, position, entry_price, entry_time, opened>>
    /\ UNCHANGED beyond_backtest

\* Lines 183-207: exit of an existing position on stop loss or take profit.
ProcessExit ==
    /\ bt_pc = "exit"
    /\ LET current_price == iloc(i).close
           pnl == pnl_percent(current_price, entry_price, position)
       IN  IF position # 0 /\ exit_condition(pnl, risk_management)
           THEN /\ capital' = capital + (current_price - entry_price) * position
                /\ trades' = Append(trades,
                                trade_record(entry_time, iloc(i).timestamp, entry_price,
                                             current_price, position, exit_reason(pnl)))
                /\ position' = 0
           ELSE UNCHANGED <<capital, trades, position>>
    /\ bt_pc' = "entry"
    /\ UNCHANGED <<price_data, strategy_params, risk_management, equity_curve, metrics,
                   i, entry_price, entry_time, signal, opened, evaluated>>
    /\ UNCHANGED beyond_backtest

\* Lines 210-213: entry on a signal.
ProcessEntry ==
    /\ bt_pc = "entry"
    /\ IF may_enter(position, signal)
       THEN /\ position' = signal
            /\ entry_price' = iloc(i).close
            /\ entry_time' = Some(iloc(i).timestamp)
            /\ opened' = opened + 1
       ELSE UNCHANGED <<position, entry_price, entry_time, opened>>
    /\ bt_pc' = "equity"
    /\ UNCHANGED <<price_data, strategy_params, risk_management, trades, equity_curve,
                   metrics, i, capital, signal, evaluated>>
    /\ UNCHANGED beyond_backtest

\* Lines 216-224: one equity point for the bar; the loop moves on.
UpdateEquity ==
    /\ bt_pc = "equity"
    /\ equity_curve' = Append(equity_curve,
                          [timestamp |-> iloc(i).timestamp,
                           equity |-> current_equity(capital, position, iloc(i).close,
                                                     entry_price)])
    /\ i' = i + 1
    /\ bt_pc' = "loop"
    /\ UNCHANGED <<price_data, strategy_params, risk_management, trades, metrics,
                   capital, position, entry_price, entry_time, signal, opened, evaluated>>
    /\ UNCHANGED beyond_backtest

\* A mutant of end_exit_reason: the reason taken from the sign of the P&L, as on line 204.
end_exit_reason_by_pnl(pnl) == exit_reason(pnl)

\* Line 240.
end_exit_reason(pnl) == "END"

\* A mutant of must_close_at_end: the position left open at the end of the data.
must_close_at_end_never(pos) == FALSE

\* Line 227.
must_close_at_end(pos) == pos # 0

\* ---- _calculate_performance_metrics, lines 294-363 ----

RECURSIVE total_profit(_)
\* Line 341: the sum of the pnl of the trades with pnl > 0.
total_profit(trs) ==
    IF trs = <<>> THEN 0
    ELSE (IF Head(trs).pnl > 0 THEN Head(trs).pnl ELSE 0) + total_profit(Tail(trs))

RECURSIVE total_loss(_)
\* Line 342: abs of the sum of the pnl of the trades with pnl <= 0.
total_loss(trs) ==
    IF trs = <<>> THEN 0
    ELSE (IF Head(trs).pnl <= 0 THEN -Head(trs).pnl ELSE 0) + total_loss(Tail(trs))

\* A float result: an exact fraction num / den, or one of the IEEE specials.
Number(n, d) == [kind |-> "number", num |-> n, den |-> d]
Infinity == [kind |-> "inf", num |-> 1, den |-> 0]
NaN == [kind |-> "nan", num |-> 0, den |-> 0]
\* A finite float whose value the model does not track.
Finite == [kind |-> "finite", num |-> 0, den |-> 0]

\* A mutant of profit_factor: 0 whenever there is no loss.
profit_factor_zero_without_loss(trs) ==
    IF total_loss(trs) > 0
    THEN Number(total_profit(trs), total_loss(trs))
    ELSE Number(0, 1)

\* Lines 344-347.
profit_factor(trs) ==
    IF total_loss(trs) > 0
    THEN Number(total_profit(trs), total_loss(trs))
    ELSE IF total_profit(trs) > 0 THEN Infinity ELSE Number(0, 1)

\* Line 304 and 356: equity.pct_change() with its leading NaN dropped; return k is
\* (equity[k+1] - equity[k]) / equity[k].
daily_returns(eq) ==
    [k \in 1..(Len(eq) - 1) |->
        [num |-> eq[k + 1].equity - eq[k].equity, den |-> eq[k].equity]]

\* All returns equal: their sample standard deviation is 0.
zero_variance(r) == \A k \in 1..Len(r) : r[k].num * r[1].den = r[1].num * r[k].den

\* Lines 354-363: sqrt(252) * mean / std.  The std of a single return (ddof = 1)
\* is NaN; a zero std divides the mean by zero (numpy: nan for 0/0, inf otherwise).
sharpe_ratio(eq) ==
    IF Len(eq) > 1
    THEN LET r == daily_returns(eq)
         IN  IF Len(r) > 0
             THEN IF Len(r) = 1 THEN NaN
                  ELSE IF zero_variance(r)
                       THEN (IF r[1].num = 0 THEN NaN ELSE Infinity)
                       ELSE Finite
             ELSE Number(0, 1)
    ELSE Number(0, 1)

\* Lines 226-247: after the last bar, close any open position and compute the metrics
\* (_calculate_performance_metrics, lines 310-363).
CloseAtEnd ==
    /\ bt_pc = "loop"
    /\ i >= Len(price_data)
    /\ LET final == price_data[Len(price_data)]
           final_capital == IF must_close_at_end(position)
                            THEN capital + (final.close - entry_price) * position
                            ELSE capital
           final_trades == IF must_close_at_end(position)
                           THEN Append(trades,
                                    trade_record(entry_time, final.timestamp, entry_price,
                                                 final.close, position,
                                                 end_exit_reason(pnl_percent(final.close,
                                                                 entry_price, position))))
                           ELSE trades
       IN  /\ capital' = final_capital
           /\ trades' = final_trades
           /\ metrics' = Some([initial_capital |-> equity_curve[1].equity,
                               final_capital |-> final_capital,
                               total_trades |-> Len(final_trades),
                               profit_factor |-> profit_factor(final_trades),
                               sharpe_ratio |-> sharpe_ratio(equity_curve)])
    /\ bt_pc' = "done"
    /\ UNCHANGED <<price_data, strategy_params, risk_management, equity_curve, i,
                   position, entry_price, entry_time, signal, opened, evaluated>>
    /\ UNCHANGED beyond_backtest

(***************************************************************************)
(* Specifications                                                          *)
(***************************************************************************)

\* No earlier instance, no indicator computation, no dashboard session.
PipelineIdle == first_run = None

IndicatorsIdle ==
    /\ prices = <<>>
    /\ period = 14
    /\ rsi_series = None
    /\ ma_series = None

\* AngelOneAPI.__init__ (angel_api.py lines 40-45), NiftyIntradayStrategy.__init__
\* (strategy.py line 30) and the session state of app.py, lines 34-39.
LiveFresh ==
    /\ is_connected = FALSE
    /\ current_position = None
    /\ signals = <<>>
    /\ auto_trading = FALSE
    /\ last_update = None
    /\ order_log = <<>>
    /\ exec_log = <<>>
    /\ runs = 0
    /\ manual_orders = 0

LiveIdle == LiveFresh /\ clock = 0

\* The usernames offered to register_user and login.
Usernames == {"asha", "ravi"}

\* AuthManager.__init__ (auth.py lines 20-27) with a new, empty credentials file.
AuthIdle ==
    /\ credentials = [u \in Usernames |-> None]
    /\ current_user = None
    /\ api = None
    /\ login_result = None
    /\ granted = FALSE

InitSignal == StrategyInputs /\ BacktesterIdle /\ PipelineIdle /\ IndicatorsIdle /\ LiveIdle /\ AuthIdle

NextSignal == GenerateSignal

\* The signal engine on every combination of its inputs.
SpecSignal == InitSignal /\ [][NextSignal]_vars

InitFetch == StrategyFresh /\ BacktesterIdle /\ PipelineIdle /\ IndicatorsIdle /\ LiveIdle /\ AuthIdle

NextFetch ==
    \/ FetchData
    \/ GenerateSignal

\* fetch_data on a fresh strategy, then generate_signal.
SpecFetch == InitFetch /\ [][NextFetch]_vars

InitBacktest == StrategyFresh /\ BacktestInputs /\ PipelineIdle /\ IndicatorsIdle /\ LiveIdle /\ AuthIdle

NextBacktest ==
    \/ RunBacktestStart
    \/ LoopSkip
    \/ LoopCheckSignal
    \/ ProcessExit
    \/ ProcessEntry
    \/ UpdateEquity
    \/ CloseAtEnd

\* One run of the backtest on a fresh Backtester, over every candle sequence.
SpecBacktest == InitBacktest /\ [][NextBacktest]_vars

\* ---- the live rule and the backtester's rule on one market state ----

EquivalenceCall == [delta : {40, 60}, gamma : {20}, theta : {-10, 10}, vega : {20}]

EquivalencePut == [delta : {-60}, gamma : {-20, 20}, theta : {-10, 10}, vega : {-20, 20}]

EquivalenceVix == {15, 22, 35}

EquivalenceRows ==
    [close : {Some(100)}, rsi : {Some(25), Some(40), Some(60), Some(75)},
     ma : {Some(99), Some(101)}]

\* The row of price_data that carries the values the live engine holds in
\* greeks_data, vix and the latest row of historical_data.
candle_of(g, v, row, ts) ==
    [timestamp |-> ts, close |-> Val(row.close), rsi |-> row.rsi, ma |-> row.ma,
     call_delta |-> g.call.delta, put_delta |-> g.put.delta,
     call_gamma |-> g.call.gamma, put_gamma |-> g.put.gamma,
     call_theta |-> g.call.theta, put_theta |-> g.put.theta,
     call_vega |-> g.call.vega, put_vega |-> g.put.vega,
     india_vix |-> v]

EquivalenceInputs ==
    /\ greeks_data \in { Some([call |-> c, put |-> q]) : c \in EquivalenceCall, q \in EquivalencePut }
    /\ vix \in { Some(v) : v \in EquivalenceVix }
    /\ historical_data \in { [isNone |-> FALSE, rows |-> <<r>>] : r \in EquivalenceRows }
    /\ last_signal = "NONE"
    /\ now = 0
    /\ sig_pc = "ready"
    /\ sig_result = "NONE"
    /\ price_data = <<candle_of(Val(greeks_data), Val(vix), historical_data.rows[1],
                                MinuteOfDay(12, 0))>>
    /\ strategy_params = default_strategy_params
    /\ risk_management = default_risk_management
    /\ BacktesterFresh

\* One call of _check_strategy_signal on the row (run_backtest, line 180).
CheckStrategySignal ==
    /\ bt_pc = "idle"
    /\ signal' = check_strategy_signal(iloc(0), strategy_params)
    /\ bt_pc' = "checked"
    /\ UNCHANGED <<price_data, strategy_params, risk_management, trades, equity_curve,
                   metrics, i, capital, position, entry_price, entry_time, opened,
                   evaluated>>
    /\ UNCHANGED beyond_backtest

InitEquivalence == EquivalenceInputs /\ PipelineIdle /\ IndicatorsIdle /\ LiveIdle /\ AuthIdle

NextEquivalence ==
    \/ GenerateSignal
    \/ CheckStrategySignal

\* Both rules applied to the same Greeks, indicators and volatility index.
SpecEquivalence == InitEquivalence /\ [][NextEquivalence]_vars

\* ---- simulate_option_greeks followed by run_backtest, on two instances ----

\* The longest candle sequence of the pipeline.
MaxPipelineBars == 3

\* simulate_option_greeks multiplies theta by 1.01 and vega by 0.99 at every bar.  To
\* keep these products exact the pipeline holds the Greeks and their thresholds in
\* units of 10^-9: GreekUnit such units make 0.01.
GreekUnit == 10000000

Min(a, b) == IF a < b THEN a ELSE b

Max(a, b) == IF a > b THEN a ELSE b

Abs(a) == IF a < 0 THEN -a ELSE a

\* The thresholds of __init__ in these units, with GAMMA_THRESHOLD = 0.02 and
\* VIX_THRESHOLD = 15 set by the environment, values the synthetic gamma and
\* volatility index move across.
pipeline_strategy_params ==
    [DELTA_THRESHOLD |-> 50 * GreekUnit, GAMMA_THRESHOLD |-> 2 * GreekUnit,
     THETA_THRESHOLD |-> 5 * GreekUnit, VEGA_THRESHOLD |-> 10 * GreekUnit,
     RSI_OVERSOLD |-> 30, RSI_OVERBOUGHT |-> 70, VIX_THRESHOLD |-> 15]

\* Closes whose ratios are exact in the units above (each divides 50 * GreekUnit).
PipelineCloses == {80, 100, 125}

\* np.random.normal(0, 0.5), line 152: the generator is not seeded, so any draw may
\* come; the model takes three of them.
VixChanges == {-1, 0, 1}

\* A candle as fetch_historical_data leaves it: no Greeks columns yet.
RawRow(ts, close, ind) ==
    [timestamp |-> ts, close |-> close, rsi |-> ind[1], ma |-> ind[2],
     call_delta |-> None, put_delta |-> None, call_gamma |-> None, put_gamma |-> None,
     call_theta |-> None, put_theta |-> None, call_vega |-> None, put_vega |-> None,
     india_vix |-> None]

\* Lines 119-131: the base values written to every row.
with_base_greeks(r) ==
    [r EXCEPT !.call_delta = 50 * GreekUnit, !.put_delta = -50 * GreekUnit,
              !.call_gamma = 5 * GreekUnit, !.put_gamma = 5 * GreekUnit,
              !.call_theta = -10 * GreekUnit, !.put_theta = -10 * GreekUnit,
              !.call_vega = 20 * GreekUnit, !.put_vega = 20 * GreekUnit,
              !.india_vix = 15]

\* Lines 134-153: row cur from the row before it (already adjusted) and one draw.
adjusted_row(before, cur, vix_change) ==
    LET price_change_half == ((50 * GreekUnit) \div before.close) * (cur.close - before.close)
        call_delta   == Min(95 * GreekUnit, before.call_delta + price_change_half)
        put_delta    == Max(-95 * GreekUnit, before.put_delta - price_change_half)
        delta_change == Abs(call_delta - 50 * GreekUnit)
        gamma        == Max(GreekUnit, 5 * GreekUnit - delta_change \div 10)
    IN  [cur EXCEPT !.call_delta = call_delta, !.put_delta = put_delta,
                    !.call_gamma = gamma, !.put_gamma = gamma,
                    !.call_theta = (before.call_theta \div 100) * 101,
                    !.put_theta = (before.put_theta \div 100) * 101,
                    !.call_vega = (before.call_vega \div 100) * 99,
                    !.put_vega = (before.put_vega \div 100) * 99,
                    !.india_vix = Max(10, Min(30, before.india_vix + vix_change))]

RECURSIVE simulate_option_greeks(_, _, _)
\* simulate_option_greeks, lines 108-153: the first k rows of the annotated frame;
\* draws[j] is the volatility change drawn for row j + 1.
simulate_option_greeks(pd, draws, k) ==
    IF k = 1 THEN <<with_base_greeks(pd[1])>>
    ELSE LET above == simulate_option_greeks(pd, draws, k - 1)
         IN  Append(above, adjusted_row(above[k - 1], with_base_greeks(pd[k]), draws[k - 1]))

\* One bar a day, as in Shapes: inside the session at 09:15 with any indicators, or
\* outside it at 15:30 before the indicators are defined.
PipelineShapes ==
    { [tod |-> MinuteOfDay(9, 15), close |-> c, ind |-> ind] :
        c \in PipelineCloses, ind \in Indicators }
    \cup { [tod |-> MinuteOfDay(15, 30), close |-> c, ind |-> <<None, None>>] :
             c \in PipelineCloses }

PipelinePriceDataValues(longest) ==
    UNION { { [k \in 1..n |-> RawRow((k - 1) * MinutesPerDay + s[k].tod, s[k].close,
                                      s[k].ind)] :
              s \in [1..n -> PipelineShapes] } : n \in 1..longest }

PipelineInputs ==
    /\ price_data \in PipelinePriceDataValues(MaxPipelineBars)
    /\ strategy_params = pipeline_strategy_params
    /\ risk_management = default_risk_management
    /\ trades = <<>>
    /\ equity_curve = <<>>
    /\ metrics = None
    /\ bt_pc = "fetched"
    /\ i = 0
    /\ capital = 0
    /\ position = 0
    /\ entry_price = 0
    /\ entry_time = None
    /\ signal = 0
    /\ opened = 0
    /\ evaluated = <<>>
    /\ first_run = None

\* simulate_option_greeks on the fetched candles.
SimulateOptionGreeks ==
    /\ bt_pc = "fetched"
    /\ \E draws \in [1..(Len(price_data) - 1) -> VixChanges] :
          price_data' = simulate_option_greeks(price_data, draws, Len(price_data))
    /\ bt_pc' = "idle"
    /\ UNCHANGED <<strategy_params, risk_management, trades, equity_curve, metrics, i,
                   capital, position, entry_price, entry_time, signal, opened, evaluated>>
    /\ UNCHANGED beyond_backtest

\* The candles without their Greeks columns.
raw_candles(pd) == [k \in 1..Len(pd) |-> RawRow(pd[k].timestamp, pd[k].close, <<pd[k].rsi, pd[k].ma>>)]

\* A second Backtester (__init__, lines 16-59) is given the same candles once the
\* first has finished; the first one's trades and equity curve are kept aside.
NewBacktester ==
    /\ bt_pc = "done"
    /\ first_run = None
    /\ first_run' = Some([trades |-> trades, equity_curve |-> equity_curve])
    /\ price_data' = raw_candles(price_data)
    /\ trades' = <<>>
    /\ equity_curve' = <<>>
    /\ metrics' = None
    /\ bt_pc' = "fetched"
    /\ i' = 0
    /\ capital' = 0
    /\ position' = 0
    /\ entry_price' = 0
    /\ entry_time' = None
    /\ signal' = 0
    /\ opened' = 0
    /\ evaluated' = <<>>
    /\ UNCHANGED <<strategy_params, risk_management>>
    /\ UNCHANGED <<strategy_vars, indicator_vars, live_vars, auth_vars>>

InitPipeline == StrategyFresh /\ PipelineInputs /\ IndicatorsIdle /\ LiveIdle /\ AuthIdle

NextPipeline ==
    \/ SimulateOptionGreeks
    \/ NewBacktester
    \/ NextBacktest

\* The pipeline run on one Backtester and then on a second with the same candles.
SpecPipeline == InitPipeline /\ [][NextPipeline]_vars

\* ---- simulate_option_greeks and run_backtest with the default thresholds ----

\* The longest candle sequence of the synthetic-Greeks runs.
MaxSyntheticBars == 3

\* A mutant of synthetic_strategy_params: GAMMA_THRESHOLD 0.02, inside the range of
\* the synthetic gamma.
synthetic_strategy_params_low_gamma ==
    [DELTA_THRESHOLD |-> 50 * GreekUnit, GAMMA_THRESHOLD |-> 2 * GreekUnit,
     THETA_THRESHOLD |-> 5 * GreekUnit, VEGA_THRESHOLD |-> 10 * GreekUnit,
     RSI_OVERSOLD |-> 30, RSI_OVERBOUGHT |-> 70, VIX_THRESHOLD |-> 25]

\* __init__, lines 35-45, with no environment override (GAMMA_THRESHOLD 0.1,
\* VIX_THRESHOLD 25), in the units of the pipeline.
synthetic_strategy_params ==
    [DELTA_THRESHOLD |-> 50 * GreekUnit, GAMMA_THRESHOLD |-> 10 * GreekUnit,
     THETA_THRESHOLD |-> 5 * GreekUnit, VEGA_THRESHOLD |-> 10 * GreekUnit,
     RSI_OVERSOLD |-> 30, RSI_OVERBOUGHT |-> 70, VIX_THRESHOLD |-> 25]

\* Closes with exact ratios, among them a fall of more than nine tenths (to 8).
SyntheticCloses == {8, 100, 125}

\* (rsi, ma): oversold above the average and overbought below it, for every close.
SyntheticIndicators == { <<Some(25), Some(7)>>, <<Some(75), Some(126)>> }

\* One bar a day: inside the session at 09:15, or outside it at 15:30.
SyntheticShapes ==
    { [tod |-> MinuteOfDay(9, 15), close |-> c, ind |-> ind] :
        c \in SyntheticCloses, ind \in SyntheticIndicators }
    \cup { [tod |-> MinuteOfDay(15, 30), close |-> 100, ind |-> <<None, None>>] }

\* The candle sequences of 1..longest bars in which no close is more than four times
\* the close before it: the products of adjusted_row then fit the model's integers.
SyntheticPriceDataValues(longest) ==
    UNION { { [k \in 1..n |-> RawRow((k - 1) * MinutesPerDay + s[k].tod, s[k].close,
                                      s[k].ind)] :
              s \in { t \in [1..n -> SyntheticShapes] :
                        \A k \in 2..n : t[k].close <= 4 * t[k - 1].close } } :
            n \in 1..longest }

SyntheticInputs ==
    /\ price_data \in SyntheticPriceDataValues(MaxSyntheticBars)
    /\ strategy_params = synthetic_strategy_params
    /\ risk_management = default_risk_management
    /\ trades = <<>>
    /\ equity_curve = <<>>
    /\ metrics = None
    /\ bt_pc = "fetched"
    /\ i = 0
    /\ capital = 0
    /\ position = 0
    /\ entry_price = 0
    /\ entry_time = None
    /\ signal = 0
    /\ opened = 0
    /\ evaluated = <<>>
    /\ first_run = None

InitSynthetic == StrategyFresh /\ SyntheticInputs /\ IndicatorsIdle /\ LiveIdle /\ AuthIdle

NextSynthetic ==
    \/ SimulateOptionGreeks
    \/ NextBacktest

\* simulate_option_greeks, then run_backtest, with the thresholds of __init__.
SpecSynthetic == InitSynthetic /\ [][NextSynthetic]_vars

\* ---- run_backtest called twice on one Backtester ----

\* The caller calls run_backtest once more on the instance whose run has finished;
\* the trades, equity curve and metrics of the finished run are kept aside.  Nothing
\* of the instance is touched: run_backtest itself rebinds its locals and
\* self.equity_curve (lines 161-167).
RunBacktestAgain ==
    /\ bt_pc = "done"
    /\ first_run = None
    /\ first_run' = Some([trades |-> trades, equity_curve |-> equity_curve,
                          metrics |-> metrics])
    /\ bt_pc' = "idle"
    /\ UNCHANGED <<price_data, strategy_params, risk_management, trades, equity_curve,
                   metrics, i, capital, position, entry_price, entry_time, signal,
                   opened, evaluated>>
    /\ UNCHANGED <<strategy_vars, indicator_vars, live_vars, auth_vars>>

NextRepeat ==
    \/ RunBacktestAgain
    \/ NextBacktest

\* Two runs of the backtest on the same Backtester, over every candle sequence.
SpecRepeat == InitBacktest /\ [][NextRepeat]_vars

\* ---- run_backtest on candles whose timestamps do not increase ----

\* Candle sequences in which bar d + 1 falls on the day of bar d: the same timestamp
\* when both have the same time of day (sort_index keeps duplicated timestamps), an
\* earlier or a later one otherwise (price_data assigned without sorting).
UncheckedPriceDataValues(longest) ==
    UNION { { [k \in 1..n |->
                 Row((IF k <= d THEN k - 1 ELSE k - 2) * MinutesPerDay + s[k].tod,
                     s[k].close, s[k].ind)] :
              s \in [1..n -> Shapes], d \in 1..(n - 1) } : n \in 2..longest }

UncheckedInputs ==
    /\ price_data \in UncheckedPriceDataValues(MaxBars)
    /\ strategy_params \in StrategyParamValues
    /\ risk_management = default_risk_management
    /\ BacktesterFresh

InitUnchecked ==
    StrategyFresh /\ UncheckedInputs /\ PipelineIdle /\ IndicatorsIdle /\ LiveIdle /\ AuthIdle

\* One run of the backtest over candle sequences that include malformed ones.
SpecUnchecked == InitUnchecked /\ [][NextBacktest]_vars

\* ---- the indicators: _calculate_rsi and the rolling mean ----

\* The longest close series and the largest window of the indicator computation.
MaxLen == 4

MaxPeriod == 3

IndicatorCloses == {99, 100, 101}

\* prices.diff(): NaN at the first index, then the change from the bar before.
\* Position k of a sequence is index k - 1 of the source.
delta_of(p) == [k \in 1..Len(p) |-> IF k = 1 THEN None ELSE Some(p[k] - p[k - 1])]

\* delta.where(delta > 0, 0): the change where it is positive, 0 elsewhere; the NaN
\* of the first index fails the test and becomes 0 as well.
gain_of(p) == [k \in 1..Len(p) |-> IF Lt(Some(0), delta_of(p)[k]) THEN Val(delta_of(p)[k]) ELSE 0]

\* -delta.where(delta < 0, 0)
loss_of(p) == [k \in 1..Len(p) |-> IF Lt(delta_of(p)[k], Some(0)) THEN -Val(delta_of(p)[k]) ELSE 0]

RECURSIVE window_sum(_, _, _)
window_sum(x, lo, hi) == IF lo > hi THEN 0 ELSE x[hi] + window_sum(x, lo, hi - 1)

\* x.rolling(window).sum() of a series without NaN: defined once the window is full.
rolling_sum(x, window) ==
    [k \in 1..Len(x) |-> IF k >= window THEN Some(window_sum(x, k - window + 1, k)) ELSE None]

\* x.rolling(window).mean(): the rolling sum over the window length.
rolling_mean(x, window) ==
    [k \in 1..Len(x) |->
        IF IsNone(rolling_sum(x, window)[k]) THEN NaN
        ELSE Number(Val(rolling_sum(x, window)[k]), window)]

\* rs = gain / loss and rsi = 100 - 100 / (1 + rs) on float columns: a zero loss
\* gives rs = inf and rsi = 100 when the gain is positive, and rs = 0 / 0 = NaN when
\* the gain is zero too; no exception is raised.  Otherwise rsi = 100 g / (g + l),
\* g and l the window sums (the window length cancels).
calculate_rsi(p, window) ==
    [k \in 1..Len(p) |->
        LET g == rolling_sum(gain_of(p), window)[k]
            l == rolling_sum(loss_of(p), window)[k]
        IN  IF IsNone(g) \/ IsNone(l) THEN NaN
            ELSE IF Val(l) = 0 THEN (IF Val(g) = 0 THEN NaN ELSE Number(100, 1))
            ELSE Number(100 * Val(g), Val(g) + Val(l))]

RECURSIVE SeqsOf(_, _)
SeqsOf(S, n) ==
    IF n = 0 THEN {<<>>}
    ELSE { Append(q, x) : q \in SeqsOf(S, n - 1), x \in S }

IndicatorInputs ==
    /\ prices \in UNION { SeqsOf(IndicatorCloses, n) : n \in 1..MaxLen }
    /\ period \in 2..MaxPeriod
    /\ rsi_series = None
    /\ ma_series = None

\* _calculate_rsi(prices, period) and prices.rolling(window=period).mean()
\* (backtesting.py lines 88-90; strategy.py lines 113-125 compute the same).
CalculateIndicators ==
    /\ rsi_series = None
    /\ rsi_series' = calculate_rsi(prices, period)
    /\ ma_series' = rolling_mean(prices, period)
    /\ UNCHANGED <<prices, period>>
    /\ UNCHANGED <<strategy_vars, backtest_vars, pipeline_vars, live_vars, auth_vars>>

InitIndicators ==
    StrategyFresh /\ BacktesterIdle /\ PipelineIdle /\ IndicatorInputs /\ LiveIdle /\ AuthIdle

NextIndicators == CalculateIndicators

\* The indicator computation over every short close series and window.
SpecIndicators == InitIndicators /\ [][NextIndicators]_vars

(***************************************************************************)
(* app.py: the dashboard; strategy.py: run_strategy and execute_trade      *)
(***************************************************************************)

\* The most run_strategy calls, manual orders and clock steps of a session.
MaxRuns == 2

MaxManualOrders == 1

MaxTicks == 4

\* refresh_data, line 503: the age after which a signal of the same kind is recorded again.
SIGNAL_REPEAT_SECONDS == 900

\* dashboard_page, line 489: the age of last_update after which the page refreshes itself.
AUTO_REFRESH_SECONDS == 60

\* The clock moves in steps of five minutes from 15:15:00, across the end of the
\* trading window at 15:30:00.
TickSeconds == 5 * 60

SessionStart == SecondsOfDay(15, 15, 0)

\* What the data sources answer to one fetch_data and calculate_indicators: Greeks
\* and history that give BUY, that give SELL, that give no signal, and no Greeks.
LiveMarkets ==
    { [greeks  |-> Some([call |-> [delta |-> 95, gamma |-> 20, theta |-> -10, vega |-> 20],
                         put  |-> [delta |-> -50, gamma |-> 20, theta |-> 5, vega |-> -10]]),
       vix     |-> 15,
       history |-> [isNone |-> FALSE,
                    rows |-> <<[close |-> Some(100), rsi |-> Some(60), ma |-> Some(99)]>>]],
      [greeks  |-> Some([call |-> [delta |-> 50, gamma |-> 10, theta |-> 5, vega |-> 10],
                         put  |-> [delta |-> -95, gamma |-> -20, theta |-> 10, vega |-> -20]]),
       vix     |-> 35,
       history |-> [isNone |-> FALSE,
                    rows |-> <<[close |-> Some(100), rsi |-> Some(40), ma |-> Some(101)]>>]],
      [greeks  |-> Some([call |-> [delta |-> 50, gamma |-> 10, theta |-> 5, vega |-> 10],
                         put  |-> [delta |-> -50, gamma |-> 20, theta |-> 5, vega |-> -10]]),
       vix     |-> 20,
       history |-> [isNone |-> FALSE,
                    rows |-> <<[close |-> Some(100), rsi |-> Some(50), ma |-> Some(99)]>>]],
      [greeks  |-> None,
       vix     |-> 0,
       history |-> [isNone |-> TRUE, rows |-> <<>>]] }

\* What the broker answers to one execute_trade: get_positions (no position in the
\* symbol, or its netqty) and place_order (an order id, or None when rejected).
BrokerAnswers == [positions : {None, Some(1)}, order_id : {None, Some(1)}]

\* A mutant of order_attempts: a rejected submission made once more.
order_attempts_retry(transaction_type, order_id) ==
    IF IsNone(order_id)
    THEN <<[transaction_type |-> transaction_type, order_id |-> order_id],
           [transaction_type |-> transaction_type, order_id |-> order_id]>>
    ELSE <<[transaction_type |-> transaction_type, order_id |-> order_id]>>

\* execute_trade, lines 234-261: the place_order calls of one branch.
order_attempts(transaction_type, order_id) ==
    <<[transaction_type |-> transaction_type, order_id |-> order_id]>>

\* execute_trade, lines 212-269, with the broker's answers: the value returned, the
\* position remembered and the place_order attempts made.
execute_trade(sig, remembered, broker) ==
    IF sig = "NONE"
    THEN [signal |-> sig, returned |-> FALSE, current_position |-> remembered,
          orders |-> <<>>]
    ELSE LET has_position == ~IsNone(broker.positions)
             held == IF has_position THEN broker.positions ELSE remembered
             place == \/ sig = "BUY" /\ (~has_position \/ Val(held) <= 0)
                      \/ sig = "SELL" /\ (~has_position \/ Val(held) >= 0)
         IN  IF place
             THEN [signal |-> sig, returned |-> ~IsNone(broker.order_id),
                   current_position |-> held,
                   orders |-> order_attempts(sig, broker.order_id)]
             ELSE [signal |-> sig, returned |-> FALSE, current_position |-> held,
                   orders |-> <<>>]

\* fetch_data, lines 68-104: True when both the Greeks and a non-empty history came.
fetch_succeeds(market) ==
    ~IsNone(market.greeks) /\ ~(market.history.isNone \/ market.history.rows = <<>>)

\* run_strategy, lines 271-306, on a connected strategy (the dashboard exists only
\* after connect() succeeded, app.py lines 142-144): the fields fetch_data assigns,
\* the verdict of generate_signal, and the execute_trade call made on a signal.
\* fetch_data assigns greeks_data first and returns before it touches vix and
\* historical_data when the Greeks are missing.
run_strategy(market, broker) ==
    LET new_vix     == IF IsNone(market.greeks) THEN vix ELSE Some(market.vix)
        new_history == IF IsNone(market.greeks) THEN historical_data ELSE market.history
        generated   == fetch_succeeds(market)
        verdict     == IF generated
                       THEN generate_signal_outcome(clock, market.greeks, new_vix,
                                                    new_history).signal
                       ELSE "NONE"
        trade       == execute_trade(verdict, current_position, broker)
    IN  [greeks_data |-> market.greeks,
         vix |-> new_vix,
         historical_data |-> new_history,
         generated |-> generated,
         signal |-> verdict,
         last_signal |-> IF verdict # "NONE" THEN verdict ELSE last_signal,
         current_position |-> IF verdict # "NONE" THEN trade.current_position
                              ELSE current_position,
         calls |-> IF verdict # "NONE" THEN <<trade>> ELSE <<>>]

\* The history entries of one execute_trade call: itself, made inside run_strategy
\* (run = 1) or by the dashboard (run = 0), and its place_order attempts, each with
\* the index of the call in exec_log (0 for a button's own place_order).
exec_entry(call, run) == [signal |-> call.signal, run |-> run, returned |-> call.returned]

order_entries(call, index) ==
    [k \in 1..Len(call.orders) |->
        [transaction_type |-> call.orders[k].transaction_type,
         order_id |-> call.orders[k].order_id, call |-> index]]

\* A mutant of should_append: every signal recorded.
should_append_any(sig, sigs, t) == sig # "NONE"

\* refresh_data, lines 501-503 (auto_refresh_data, lines 528-530).
should_append(sig, sigs, t) ==
    /\ sig # "NONE"
    /\ \/ sigs = <<>>
       \/ sigs[Len(sigs)].type # sig
       \/ t - sigs[Len(sigs)].time > SIGNAL_REPEAT_SECONDS

\* Lines 506 and 509-514: the record appended when the history is there.
signal_record(t, kind, history, order_id) ==
    [time |-> t, type |-> kind, price |-> history.rows[Len(history.rows)].close,
     order_id |-> order_id]

history_available(history) == ~history.isNone /\ history.rows # <<>>

\* The session as dashboard_page first shows it: the strategy connected at the
\* login (app.py lines 142-144), nothing fetched, nothing recorded.
LiveSession ==
    /\ is_connected = TRUE
    /\ current_position = None
    /\ signals = <<>>
    /\ auto_trading = FALSE
    /\ last_update = None
    /\ clock = SessionStart
    /\ order_log = <<>>
    /\ exec_log = <<>>
    /\ runs = 0
    /\ manual_orders = 0

\* Time passes between two handlers.
Tick ==
    /\ clock < SessionStart + MaxTicks * TickSeconds
    /\ clock' = clock + TickSeconds
    /\ UNCHANGED <<is_connected, current_position, signals, auto_trading, last_update,
                   order_log, exec_log, runs, manual_orders>>
    /\ UNCHANGED <<strategy_vars, backtest_vars, pipeline_vars, indicator_vars, auth_vars>>

\* The auto-trading checkbox, lines 166-168.
ToggleAutoTrading ==
    /\ auto_trading' = ~auto_trading
    /\ UNCHANGED <<is_connected, current_position, signals, last_update, clock,
                   order_log, exec_log, runs, manual_orders>>
    /\ UNCHANGED <<strategy_vars, backtest_vars, pipeline_vars, indicator_vars, auth_vars>>

\* What one run_strategy call leaves in the strategy's fields.
StrategyAfter(run) ==
    /\ greeks_data' = run.greeks_data
    /\ vix' = run.vix
    /\ historical_data' = run.historical_data
    /\ last_signal' = run.last_signal
    /\ now' = IF run.generated THEN clock ELSE now
    /\ sig_pc' = IF run.generated THEN "returned" ELSE sig_pc
    /\ sig_result' = IF run.generated THEN run.signal ELSE sig_result

\* refresh_data, lines 492-516: run_strategy, then the record of strategy.last_signal.
RefreshData ==
    /\ runs < MaxRuns
    /\ is_connected
    /\ \E market \in LiveMarkets, broker \in BrokerAnswers :
         LET run == run_strategy(market, broker)
         IN  /\ StrategyAfter(run)
             /\ current_position' = run.current_position
             /\ exec_log' = IF run.calls = <<>> THEN <<>>
                            ELSE <<exec_entry(run.calls[1], 1)>>
             /\ order_log' = IF run.calls = <<>> THEN <<>>
                             ELSE order_entries(run.calls[1], 1)
             /\ signals' = IF /\ should_append(run.last_signal, signals, clock)
                              /\ history_available(run.historical_data)
                           THEN Append(signals, signal_record(clock, run.last_signal,
                                                              run.historical_data, None))
                           ELSE signals
    /\ runs' = runs + 1
    /\ last_update' = Some(clock)
    /\ UNCHANGED <<is_connected, auto_trading, clock, manual_orders>>
    /\ UNCHANGED <<backtest_vars, pipeline_vars, indicator_vars, auth_vars>>

\* dashboard_page, lines 488-490, and auto_refresh_data, lines 518-547: with
\* auto-trading on and last_update older than a minute, run_strategy, then
\* execute_trade on strategy.last_signal and its record.
AutoRefreshData ==
    /\ runs < MaxRuns
    /\ is_connected
    /\ auto_trading
    /\ IF IsNone(last_update) THEN TRUE
       ELSE clock - Val(last_update) > AUTO_REFRESH_SECONDS
    /\ \E market \in LiveMarkets, broker \in BrokerAnswers, again \in BrokerAnswers :
         LET run      == run_strategy(market, broker)
             recorded == should_append(run.last_signal, signals, clock)
             trade    == execute_trade(run.last_signal, run.current_position, again)
             execs    == IF run.calls = <<>> THEN <<>>
                         ELSE <<exec_entry(run.calls[1], 1)>>
             orders   == IF run.calls = <<>> THEN <<>>
                         ELSE order_entries(run.calls[1], 1)
         IN  /\ StrategyAfter(run)
             /\ current_position' = IF recorded THEN trade.current_position
                                    ELSE run.current_position
             /\ exec_log' = IF recorded THEN Append(execs, exec_entry(trade, 0)) ELSE execs
             /\ order_log' = IF recorded THEN orders \o order_entries(trade, Len(execs) + 1)
                             ELSE orders
             /\ signals' = IF recorded /\ history_available(run.historical_data)
                           THEN Append(signals, signal_record(clock, run.last_signal,
                                                              run.historical_data, None))
                           ELSE signals
    /\ runs' = runs + 1
    /\ last_update' = Some(clock)
    /\ UNCHANGED <<is_connected, auto_trading, clock, manual_orders>>
    /\ UNCHANGED <<backtest_vars, pipeline_vars, indicator_vars, auth_vars>>

\* The Buy / Sell button, lines 429-453 / 456-480: one place_order, and a record of
\* the order when an id came back and the history is there.
ManualOrder(transaction_type) ==
    /\ manual_orders < MaxManualOrders
    /\ manual_orders' = manual_orders + 1
    /\ exec_log' = <<>>
    /\ \E order_id \in {None, Some(1)} :
         /\ order_log' = <<[transaction_type |-> transaction_type,
                            order_id |-> order_id, call |-> 0]>>
         /\ signals' = IF ~IsNone(order_id) /\ history_available(historical_data)
                       THEN Append(signals, signal_record(clock, transaction_type,
                                                          historical_data, order_id))
                       ELSE signals
    /\ UNCHANGED <<is_connected, current_position, auto_trading, last_update, clock,
                   runs>>
    /\ UNCHANGED <<strategy_vars, backtest_vars, pipeline_vars, indicator_vars, auth_vars>>

ManualBuy == ManualOrder("BUY")

ManualSell == ManualOrder("SELL")

InitLive == StrategyFresh /\ BacktesterIdle /\ PipelineIdle /\ IndicatorsIdle /\ LiveSession
           /\ AuthIdle

NextLive ==
    \/ Tick
    \/ ToggleAutoTrading
    \/ RefreshData
    \/ AutoRefreshData
    \/ ManualBuy
    \/ ManualSell

\* A dashboard session: refreshes, automatic refreshes and manual orders as time passes.
SpecLive == InitLive /\ [][NextLive]_vars

(***************************************************************************)
(* auth.py: AuthManager                                                    *)
(***************************************************************************)

\* The passwords typed, the TOTP keys a user may register (None: no 2FA) and the
\* TOTP codes typed (None: the field left empty).
Passwords == {1, 2}

TotpKeys == {None, Some(11)}

\* pyotp.TOTP(key).now(): the code the key gives at the moment of the call.
totp_now(key) == key * 1000 + 7

TotpCodes == {None, Some(totp_now(11)), Some(0)}

\* _hash_password, lines 294-304: SHA-256 of the password, one digest per password.
hash_password(password) == password * 31 + 5

\* totp.verify(totp_code), line 107.
totp_verify(key, totp_code) == totp_code = totp_now(key)

LoginReturn(success, message) == Some([success |-> success, message |-> message])

\* is_logged_in, lines 153-160.
is_logged_in(user, session) == user # None /\ session # None

\* register_user, lines 29-73: a username already present is refused.
RegisterUser ==
    /\ \E username \in Usernames, password \in Passwords, totp_key \in TotpKeys :
         credentials' = IF credentials[username] # None THEN credentials
                        ELSE [credentials EXCEPT
                                ![username] = Some([password |-> hash_password(password),
                                                    totp_key |-> totp_key])]
    /\ UNCHANGED <<current_user, api, login_result, granted>>
    /\ UNCHANGED <<strategy_vars, backtest_vars, pipeline_vars, indicator_vars, live_vars>>

\* login, lines 75-128; connected is what AngelOneAPI.connect returns (angel_api.py
\* lines 46-78), which sets is_connected only when it returns True.
Login ==
    /\ \E username \in Usernames, password \in Passwords, totp_code \in TotpCodes,
          connected \in BOOLEAN :
         IF credentials[username] = None
         THEN /\ login_result' = LoginReturn(FALSE, "Invalid username or password")
              /\ UNCHANGED <<current_user, api, granted>>
         ELSE IF Val(credentials[username]).password # hash_password(password)
         THEN /\ login_result' = LoginReturn(FALSE, "Invalid username or password")
              /\ UNCHANGED <<current_user, api, granted>>
         ELSE IF Val(credentials[username]).totp_key # None /\ totp_code = None
         THEN /\ login_result' = LoginReturn(FALSE, "TOTP code required")
              /\ UNCHANGED <<current_user, api, granted>>
         ELSE IF /\ Val(credentials[username]).totp_key # None
                 /\ ~totp_verify(Val(Val(credentials[username]).totp_key), Val(totp_code))
         THEN /\ login_result' = LoginReturn(FALSE, "Invalid TOTP code")
              /\ UNCHANGED <<current_user, api, granted>>
         ELSE /\ current_user' = Some(username)
              /\ api' = Some([is_connected |-> connected])
              /\ login_result' = IF connected
                                  THEN LoginReturn(TRUE, "Login successful")
                                  ELSE LoginReturn(FALSE, "Failed to connect to Angel One API")
              /\ granted' = (granted \/ connected)
    /\ UNCHANGED credentials
    /\ UNCHANGED <<strategy_vars, backtest_vars, pipeline_vars, indicator_vars, live_vars>>

\* logout, lines 130-142.
Logout ==
    /\ current_user' = None
    /\ api' = None
    /\ granted' = FALSE
    /\ UNCHANGED <<credentials, login_result>>
    /\ UNCHANGED <<strategy_vars, backtest_vars, pipeline_vars, indicator_vars, live_vars>>

InitAuth == StrategyFresh /\ BacktesterIdle /\ PipelineIdle /\ IndicatorsIdle /\ LiveIdle
            /\ AuthIdle

NextAuth ==
    \/ RegisterUser
    \/ Login
    \/ Logout

\* Registrations, logins and logouts on one AuthManager.
SpecAuth == InitAuth /\ [][NextAuth]_vars

(***************************************************************************)
(* Claims about the signal engine (SpecSignal)                             *)
(***************************************************************************)

Called == sig_pc # "ready"

InsideWindow == SecondsOfDay(9, 15, 0) <= now /\ now <= SecondsOfDay(15, 30, 0)

LatestRow == historical_data.rows[Len(historical_data.rows)]

HistoryPresent == ~historical_data.isNone /\ historical_data.rows # <<>>

DataComplete ==
    /\ ~IsNone(greeks_data)
    /\ ~IsNone(vix)
    /\ HistoryPresent
    /\ ~IsNone(LatestRow.close) /\ ~IsNone(LatestRow.rsi) /\ ~IsNone(LatestRow.ma)

\* The BUY rule as the claims state it.
BuyRule ==
    /\ Val(greeks_data).call.delta > delta_threshold
    /\ Val(greeks_data).call.gamma > gamma_threshold
    /\ Val(LatestRow.rsi) > 50
    /\ Val(LatestRow.close) > Val(LatestRow.ma)
    /\ Val(greeks_data).call.theta < theta_threshold
    /\ Val(greeks_data).call.vega > vega_threshold
    /\ Val(vix) < vix_buy_threshold

\* The SELL rule without its gamma test.
SellRuleButGamma ==
    /\ Val(greeks_data).put.delta < -delta_threshold
    /\ Val(LatestRow.rsi) < 50
    /\ Val(LatestRow.close) < Val(LatestRow.ma)
    /\ Val(greeks_data).put.theta > theta_threshold
    /\ Val(greeks_data).put.vega < -vega_threshold
    /\ Val(vix) > vix_sell_threshold

\* C1: whenever the clock is outside the trading-hours window, generate_signal
\* returns no signal (NONE) and does not raise, whatever the Greeks, the volatility
\* index and the historical data are, missing or empty ones included.
C1_OutsideHoursNone ==
    (Called /\ ~InsideWindow) => (sig_pc = "returned" /\ sig_result = "NONE")

\* C1's case: a call outside the window with Greeks present and no historical data,
\* where a data check made first would fail.
C1_Witness ==
    /\ sig_pc = "returned" /\ ~InsideWindow
    /\ ~IsNone(greeks_data) /\ historical_data.isNone

\* C2: generate_signal returns exactly one of BUY, SELL and NONE; BUY is returned
\* whenever the BUY conditions hold, whatever the SELL conditions are, and SELL only
\* when the SELL conditions hold and the BUY conditions do not.
C2_OneSignalBuyFirst ==
    (sig_pc = "returned") =>
        /\ sig_result \in {"BUY", "SELL", "NONE"}
        /\ (InsideWindow /\ DataComplete) =>
             /\ buy_conditions(Val(greeks_data), Val(vix), LatestRow) => sig_result = "BUY"
             /\ sig_result = "SELL" =>
                  /\ sell_conditions(Val(greeks_data), Val(vix), LatestRow)
                  /\ ~buy_conditions(Val(greeks_data), Val(vix), LatestRow)

\* C2's case: a call that returned SELL.
C2_Witness == sig_pc = "returned" /\ sig_result = "SELL" /\ last_signal = "SELL"

\* C3: inside trading hours and with complete data, generate_signal returns BUY
\* exactly when call delta, call gamma, RSI, close against the average, call theta,
\* call vega and the volatility index all pass their BUY tests.
C3_BuyExactly ==
    (Called /\ InsideWindow /\ DataComplete) =>
        /\ sig_pc = "returned"
        /\ (sig_result = "BUY") <=> BuyRule

\* C3's case: a call inside the window, data complete, that returned BUY.
C3_Witness ==
    sig_pc = "returned" /\ InsideWindow /\ DataComplete /\ sig_result = "BUY"

\* C4 as stated: inside trading hours, data complete and the BUY conditions not all
\* true, SELL is returned exactly when the SELL tests hold with put.gamma > gammaThreshold.
C4_SellGammaAbove ==
    (Called /\ InsideWindow /\ DataComplete /\ ~BuyRule) =>
        ((sig_result = "SELL") <=>
            (SellRuleButGamma /\ Val(greeks_data).put.gamma > gamma_threshold))

\* C4 amended: inside trading hours, data complete and the BUY conditions not all
\* true, SELL is returned exactly when the SELL tests hold with
\* put.gamma < -gammaThreshold.
C4_SellGammaBelow ==
    (Called /\ InsideWindow /\ DataComplete /\ ~BuyRule) =>
        /\ sig_pc = "returned"
        /\ (sig_result = "SELL") <=>
             (SellRuleButGamma /\ Val(greeks_data).put.gamma < -gamma_threshold)

\* C4's case: SELL returned on a put gamma below the negated threshold.
C4_Witness ==
    /\ sig_pc = "returned" /\ InsideWindow /\ DataComplete /\ sig_result = "SELL"
    /\ Val(greeks_data).put.gamma < -gamma_threshold

\* C5: inside trading hours, if the Greeks are missing, or the historical data is
\* absent or empty, or the latest bar has an undefined RSI or moving average,
\* generate_signal returns NONE and does not raise.
C5_MissingDataNone ==
    (Called /\ InsideWindow
        /\ (\/ IsNone(greeks_data)
            \/ ~HistoryPresent
            \/ IsNone(LatestRow.rsi)
            \/ IsNone(LatestRow.ma)))
    => (sig_pc = "returned" /\ sig_result = "NONE")

(***************************************************************************)
(* Claims about the backtest simulator (SpecBacktest)                      *)
(***************************************************************************)

FinalBar == price_data[Len(price_data)]

LastTrade == trades[Len(trades)]

\* The session of the backtest as the source states it: 09:15 to 15:15.
InSession(ts) ==
    /\ ts % (24 * 60) >= 9 * 60 + 15
    /\ ts % (24 * 60) <= 15 * 60 + 15

\* C6: at every bar the simulator's position is one of 0 (FLAT), 1 (LONG) and
\* -1 (SHORT), and a position is opened only from FLAT.
C6_SinglePosition ==
    [][ /\ position' \in {0, 1, -1}
        /\ (opened' = opened + 1) => (position = 0 /\ position' # 0)
        /\ (position' # position /\ position' # 0) => (position = 0 /\ opened' = opened + 1)
      ]_vars

\* C6's case: a second position opened in one run, after the first was closed.
C6_Witness == opened = 2 /\ position # 0 /\ Len(trades) = 1

\* C7: on a fresh Backtester, after run_backtest the number of trades equals the
\* number of positions opened; during the run it lags by the one open position.
C7_TradesMatchOpenings ==
    /\ (bt_pc = "done") => (Len(trades) = opened)
    /\ (bt_pc \in {"loop", "exit", "entry", "equity"}) =>
          (Len(trades) + (IF position # 0 THEN 1 ELSE 0) = opened)

\* C7's case: a finished run in which two positions were opened and two trades stand.
C7_Witness == bt_pc = "done" /\ opened = 2 /\ Len(trades) = 2

\* C8: at an evaluated bar with an open position,
\* pnlPercent = ((close/entryPrice) - 1) * 100 * direction; the position is closed at
\* that bar exactly when pnlPercent <= -stopLossPercent or >= takeProfitPercent; then
\* the price difference goes to capital, a trade is recorded with reason SL when
\* pnlPercent < 0 and TP otherwise, and the position is FLAT.  A LONG whose close is
\* at or below entry * (1 - stopLossPercent/100) leaves with reason SL.
C8_ExitRule ==
    [][ (bt_pc = "exit" /\ position # 0) =>
          LET close == iloc(i).close
              diff  == (close - entry_price) * position
              hit   == \/ diff * 100 <= -risk_management.STOP_LOSS_PERCENT * entry_price
                       \/ diff * 100 >= risk_management.TAKE_PROFIT_PERCENT * entry_price
          IN  /\ hit =>
                   /\ position' = 0
                   /\ capital' = capital + diff
                   /\ Len(trades') = Len(trades) + 1
                   /\ SubSeq(trades', 1, Len(trades)) = trades
                   /\ trades'[Len(trades')].exit_reason = (IF diff < 0 THEN "SL" ELSE "TP")
                   /\ trades'[Len(trades')].exit_price = close
                   /\ trades'[Len(trades')].exit_time = iloc(i).timestamp
                   /\ trades'[Len(trades')].entry_price = entry_price
                   /\ trades'[Len(trades')].pnl = diff
                   /\ trades'[Len(trades')].pnl_percent.num = diff * 100
                   /\ trades'[Len(trades')].pnl_percent.den = entry_price
              /\ ~hit => (position' = position /\ capital' = capital /\ trades' = trades)
              /\ (/\ position = 1
                  /\ risk_management.STOP_LOSS_PERCENT > 0
                  /\ close * 100 <= entry_price * (100 - risk_management.STOP_LOSS_PERCENT))
                 => (position' = 0 /\ trades'[Len(trades')].exit_reason = "SL")
      ]_vars

\* C8's case: a LONG entered at 100 and stopped out at 99, exactly 1 percent below.
C8_Witness ==
    \E k \in 1..Len(trades) :
        /\ trades[k].position = "LONG"
        /\ trades[k].entry_price = 100
        /\ trades[k].exit_price = 99
        /\ trades[k].exit_reason = "SL"

\* C9 as stated: a position open when the final bar is reached is closed at the
\* final bar with reason END, whether or not the final bar's price crosses the
\* stop-loss or take-profit level.
C9_FinalBarAlwaysEnd ==
    (bt_pc = "done") =>
        \A k \in 1..Len(trades) :
            (/\ trades[k].exit_time = FinalBar.timestamp
             /\ Val(trades[k].entry_time) < FinalBar.timestamp)
            => trades[k].exit_reason = "END"

\* C9 amended: a position still open after the last bar has been processed is closed
\* at the final bar's close with reason END, and only such a trade has reason END
\* (a position whose stop-loss or take-profit level is crossed on an evaluated final
\* bar is closed there with SL or TP); with both thresholds unreachable, a position
\* opened during the run gives exactly one trade, with reason END.
C9_OpenAtEndClosedEnd ==
    (bt_pc = "done") =>
        /\ (position # 0) =>
              /\ Len(trades) >= 1
              /\ LastTrade.exit_reason = "END"
              /\ LastTrade.exit_price = FinalBar.close
              /\ LastTrade.exit_time = FinalBar.timestamp
              /\ LastTrade.entry_price = entry_price
              /\ LastTrade.entry_time = entry_time
        /\ \A k \in 1..Len(trades) :
              (trades[k].exit_reason = "END") => (k = Len(trades) /\ position # 0)
        /\ (/\ risk_management.STOP_LOSS_PERCENT = 100
            /\ risk_management.TAKE_PROFIT_PERCENT = 100
            /\ opened >= 1)
           => (Len(trades) = 1 /\ trades[1].exit_reason = "END")

\* C9's case: a position stopped out on the final bar (reason SL), a new one opened
\* on that bar and closed at the end of the data (reason END).
C9_Witness ==
    /\ bt_pc = "done" /\ Len(trades) = 2
    /\ trades[1].exit_reason = "SL" /\ trades[1].exit_time = FinalBar.timestamp
    /\ trades[2].exit_reason = "END"

\* C10 as stated: after run_backtest the equity curve has exactly one point for each
\* evaluated bar and no point for a bar that was skipped or never evaluated.
C10_OnePointPerEvaluatedBar ==
    (bt_pc = "done") =>
        /\ Len(equity_curve) = Len(evaluated)
        /\ \A k \in 1..Len(equity_curve) :
              \E e \in 1..Len(evaluated) :
                  equity_curve[k].timestamp = iloc(evaluated[e]).timestamp

\* C10 amended: after run_backtest the equity curve is one initial point, stamped
\* with the first bar's time and holding the initial capital, followed by exactly one
\* point for each evaluated bar (the bars after the first that lie in 09:15-15:15),
\* in order, and no point for a skipped bar.
C10_SeedPlusOnePerEvaluatedBar ==
    (bt_pc = "done") =>
        /\ Len(equity_curve) = 1 + Len(evaluated)
        /\ equity_curve[1] = [timestamp |-> price_data[1].timestamp,
                              equity |-> INITIAL_CAPITAL]
        /\ \A k \in 1..Len(evaluated) :
              equity_curve[k + 1].timestamp = iloc(evaluated[k]).timestamp
        /\ \A b \in 1..(Len(price_data) - 1) :
              InSession(iloc(b).timestamp) <=>
                 (\E k \in 2..Len(equity_curve) :
                      equity_curve[k].timestamp = iloc(b).timestamp)

\* C10's case: a finished run with a skipped bar and an evaluated bar.
C10_Witness ==
    /\ bt_pc = "done" /\ Len(price_data) = 3 /\ Len(evaluated) = 1
    /\ Len(equity_curve) = 2

(***************************************************************************)
(* Claims about the equity curve and the metrics (SpecBacktest)            *)
(***************************************************************************)

RECURSIVE SumPnl(_)
SumPnl(trs) == IF trs = <<>> THEN 0 ELSE Head(trs).pnl + SumPnl(Tail(trs))

LastPoint == equity_curve[Len(equity_curve)]

LastEvaluated == iloc(evaluated[Len(evaluated)])

\* C11: the equity point appended for an evaluated bar is the initial capital, plus
\* the pnl of every trade closed in this run up to and including that bar, plus
\* (close - entry price) * direction of the position open after the bar (0 when flat).
C11_EquityIsRealizedPlusUnrealized ==
    (bt_pc = "loop" /\ evaluated # <<>>) =>
        /\ LastPoint.timestamp = LastEvaluated.timestamp
        /\ LastPoint.equity =
               INITIAL_CAPITAL + SumPnl(trades)
               + (IF position # 0 THEN (LastEvaluated.close - entry_price) * position ELSE 0)

\* An evaluated bar that leaves a position open with a non-zero unrealized P&L.
C11_Witness ==
    /\ bt_pc = "loop"
    /\ evaluated # <<>>
    /\ position # 0
    /\ LastEvaluated.close # entry_price

\* C16: profit_factor is total profit / total loss when the total realized loss is
\* positive, +infinity when the loss is 0 and the profit positive, and 0 when both
\* are 0 (no trades included).
C16_ProfitFactor ==
    bt_pc = "done" =>
        LET pf == Val(metrics).profit_factor
            profit == total_profit(trades)
            loss == total_loss(trades)
        IN  /\ loss > 0 => pf = Number(profit, loss)
            /\ (loss = 0 /\ profit > 0) => pf = Infinity
            /\ (loss = 0 /\ profit = 0) => pf = Number(0, 1)

\* A finished run whose only trade won: no loss, a positive profit.
C16_Witness ==
    /\ bt_pc = "done"
    /\ trades # <<>>
    /\ total_loss(trades) = 0
    /\ total_profit(trades) > 0

\* C17 as stated: the Sharpe ratio is 0 when the equity curve has fewer than 2 points
\* or its returns have zero variance, and is never undefined or infinite.
C17_SharpeZeroOrFinite ==
    bt_pc = "done" =>
        LET sharpe == Val(metrics).sharpe_ratio
        IN  /\ sharpe.kind \in {"number", "finite"}
            /\ (Len(equity_curve) < 2 \/ zero_variance(daily_returns(equity_curve)))
                  => sharpe = Number(0, 1)

(***************************************************************************)
(* Claims about the two signal rules (SpecEquivalence)                     *)
(***************************************************************************)

\* C13 as stated: on the same close, rsi, ma, Greeks, volatility index and
\* thresholds, _check_strategy_signal returns 1, -1 or 0 exactly when generate_signal
\* (inside trading hours, data complete) returns BUY, SELL or NONE.
C13_SameVerdict ==
    (sig_pc = "returned" /\ InsideWindow /\ DataComplete /\ bt_pc = "checked") =>
        /\ signal = 1 <=> sig_result = "BUY"
        /\ signal = -1 <=> sig_result = "SELL"
        /\ signal = 0 <=> sig_result = "NONE"

(***************************************************************************)
(* Claims about the indicators (SpecIndicators)                            *)
(***************************************************************************)

Calculated == rsi_series # None

\* C18 as stated: the RSI has no numeric value at the indices 0..P-1 and the moving
\* average none at the indices 0..P-2, whatever the period P and the price series.
C18_UndefinedBeforePeriod ==
    Calculated =>
        \A k \in 1..Len(prices) :
            /\ (k - 1 <= period - 1) => rsi_series[k] = NaN
            /\ (k - 1 <= period - 2) => ma_series[k] = NaN

\* C19 as stated: where the rolling average loss of the window is 0 the RSI is the
\* number 100, so a constant series has a defined RSI from index P onward.
C19_ZeroLossSaturates ==
    Calculated =>
        \A k \in 1..Len(prices) :
            (k - 1 >= period /\ rolling_sum(loss_of(prices), period)[k] = Some(0))
                => rsi_series[k] = Number(100, 1)

(***************************************************************************)
(* Claims about malformed candles (SpecUnchecked)                          *)
(***************************************************************************)

StrictlyIncreasing ==
    \A k \in 1..(Len(price_data) - 1) : price_data[k].timestamp < price_data[k + 1].timestamp

\* C20 as stated: on candles whose timestamps are not strictly increasing run_backtest
\* stops with an error: it evaluates no bar, records no trade and computes no metrics.
C20_MalformedInputStops ==
    ~StrictlyIncreasing =>
        /\ bt_pc \in {"idle", "loop"}
        /\ evaluated = <<>>
        /\ trades = <<>>
        /\ metrics = None

(***************************************************************************)
(* Claims about the pipeline (SpecPipeline)                                *)
(***************************************************************************)

\* C12 as stated: simulate_option_greeks followed by run_backtest, run on two fresh
\* Backtester instances with the same price series, gives identical trade lists and
\* identical equity curves.
C12_SameOutputs ==
    (first_run # None /\ bt_pc = "done") =>
        /\ trades = Val(first_run).trades
        /\ equity_curve = Val(first_run).equity_curve

(***************************************************************************)
(* Claims about the dashboard and the order submission (SpecLive)          *)
(***************************************************************************)

\* C14 as stated: any two consecutive records of the same kind in the session's
\* signal list are more than 15 minutes (900 seconds) apart.
C14_ConsecutiveSameKindApart ==
    \A k \in 2..Len(signals) :
        signals[k].type = signals[k - 1].type
            => signals[k].time - signals[k - 1].time > SIGNAL_REPEAT_SECONDS

\* C14, amended: a record appended by refresh_data or auto_refresh_data (the records
\* without an order id) is the first of the list, or differs in kind from the record
\* before it, or is more than 900 seconds later than it.  The Buy and Sell buttons
\* append their records, which carry the order id, without this test.
C14_RefreshRecordsApart ==
    \A k \in 2..Len(signals) :
        IsNone(signals[k].order_id) =>
            \/ signals[k].type # signals[k - 1].type
            \/ signals[k].time - signals[k - 1].time > SIGNAL_REPEAT_SECONDS

\* A refresh has recorded a signal of the kind of the record before it.
C14_Witness ==
    \E k \in 2..Len(signals) :
        /\ IsNone(signals[k].order_id)
        /\ signals[k].type = signals[k - 1].type

\* C15: every execute_trade call makes at most one place_order attempt and returns
\* False when that attempt yields no order id, and run_strategy calls execute_trade
\* at most once per run.
C15_NoRetry ==
    /\ \A e \in 1..Len(exec_log) :
          LET mine == { k \in 1..Len(order_log) : order_log[k].call = e }
          IN  /\ Cardinality(mine) <= 1
              /\ \A k \in mine : IsNone(order_log[k].order_id) => ~exec_log[e].returned
    /\ Cardinality({ e \in 1..Len(exec_log) : exec_log[e].run = 1 }) <= 1

\* run_strategy has called execute_trade and the broker has rejected its order.
C15_Witness ==
    \E k \in 1..Len(order_log) :
        /\ order_log[k].call > 0
        /\ exec_log[order_log[k].call].run = 1
        /\ IsNone(order_log[k].order_id)

(***************************************************************************)
(* Claims about the order of exit and entry on one bar (SpecBacktest)      *)
(***************************************************************************)

\* The bar being evaluated has closed a position by stop loss or take profit.
ClosedOnThisBar ==
    /\ trades # <<>>
    /\ LastTrade.exit_time = iloc(i).timestamp
    /\ LastTrade.exit_reason \in {"SL", "TP"}

\* C21: on an evaluated bar the exit is processed before the entry; when the bar has
\* closed a position by stop loss or take profit and its signal is not 0, then after
\* the entry step a position is open in the direction of the signal, with the bar's
\* close as entry price and the bar's timestamp as entry time.
C21_ExitThenEntryOnSameBar ==
    (bt_pc = "equity" /\ ClosedOnThisBar /\ signal # 0) =>
        /\ position = signal
        /\ entry_price = iloc(i).close
        /\ entry_time = Some(iloc(i).timestamp)
        /\ LastTrade.entry_time # entry_time

\* A bar has closed a position and reopened one against the direction just closed.
C21_Witness ==
    /\ bt_pc = "equity"
    /\ ClosedOnThisBar
    /\ signal # 0
    /\ LastTrade.position = (IF signal = 1 THEN "SHORT" ELSE "LONG")

(***************************************************************************)
(* Claims about the synthetic Greeks (SpecSynthetic)                       *)
(***************************************************************************)

\* simulate_option_greeks has annotated the candles.
Annotated == bt_pc # "fetched"

\* C22 as stated: at every bar of the annotated frame the call delta is in
\* [0.05, 0.95], the put delta in [-0.95, 0.95] and the volatility index in [10, 30].
C22_GreeksInsideClamps ==
    Annotated =>
        \A k \in 1..Len(price_data) :
            /\ price_data[k].call_delta >= 5 * GreekUnit
            /\ price_data[k].call_delta <= 95 * GreekUnit
            /\ price_data[k].put_delta >= -95 * GreekUnit
            /\ price_data[k].put_delta <= 95 * GreekUnit
            /\ price_data[k].india_vix >= 10
            /\ price_data[k].india_vix <= 30

\* Every filter of the long rule but the gamma test passes on row r.
LongButGamma(r) ==
    /\ r.call_delta > strategy_params.DELTA_THRESHOLD
    /\ r.call_theta < -strategy_params.THETA_THRESHOLD
    /\ r.call_vega > strategy_params.VEGA_THRESHOLD
    /\ Lt(r.rsi, Some(strategy_params.RSI_OVERSOLD))
    /\ Lt(r.ma, Some(r.close))
    /\ r.india_vix < strategy_params.VIX_THRESHOLD

\* C23: with the default thresholds the synthetic call and put gamma are at most 0.05
\* at every bar, below the gamma threshold 0.1; the signal of every evaluated bar is
\* 0, no position is ever opened and the run ends with no trade (total_trades 0).
C23_DefaultsNeverTrade ==
    Annotated =>
        /\ \A k \in 1..Len(price_data) :
              /\ price_data[k].call_gamma <= 5 * GreekUnit
              /\ price_data[k].put_gamma <= 5 * GreekUnit
              /\ price_data[k].call_gamma < strategy_params.GAMMA_THRESHOLD
              /\ price_data[k].put_gamma < strategy_params.GAMMA_THRESHOLD
        /\ signal = 0
        /\ position = 0
        /\ opened = 0
        /\ trades = <<>>
        /\ bt_pc = "done" => Val(metrics).total_trades = 0

\* A finished run that evaluated a bar on which only the gamma test kept the long
\* rule from firing.
C23_Witness ==
    /\ bt_pc = "done"
    /\ \E k \in 1..Len(evaluated) : LongButGamma(iloc(evaluated[k]))
    /\ trades = <<>>

(***************************************************************************)
(* Claims about a repeated run (SpecRepeat)                                *)
(***************************************************************************)

\* C24 as stated: when a second run_backtest on the same instance and the same
\* candles has finished, its trade list, equity curve and metrics equal those of
\* the first run, and total_trades counts the trades of that run alone.
C24_SecondRunSameResults ==
    (first_run # None /\ bt_pc = "done") =>
        /\ trades = Val(first_run).trades
        /\ equity_curve = Val(first_run).equity_curve
        /\ metrics = Val(first_run).metrics
        /\ Val(metrics).total_trades = opened

(***************************************************************************)
(* Claims about the end of a run (SpecBacktest)                            *)
(***************************************************************************)

\* C25 as stated: when run_backtest has finished, the equity of the last point of
\* the equity curve equals the final_capital of the metrics, which is the initial
\* capital plus the pnl of all trades of the run, whatever the time of the last candle.
C25_LastPointIsFinalCapital ==
    bt_pc = "done" =>
        /\ Val(metrics).final_capital = INITIAL_CAPITAL + SumPnl(trades)
        /\ LastPoint.equity = Val(metrics).final_capital

(***************************************************************************)
(* Claims about the refresh handlers (SpecLive)                            *)
(***************************************************************************)

\* C26 as stated: a refresh_data call made while auto-trading is disabled (the only
\* handler that runs the strategy then) makes no place_order call.
C26_ManualRefreshSubmitsNoOrder ==
    [][(~auto_trading /\ runs' # runs) => order_log' = <<>>]_vars

\* C27 as stated: one auto_refresh_data invocation makes at most one place_order
\* call, whatever the signal, the recorded signals and the broker's positions.
C27_OneOrderPerAutoCycle ==
    [][AutoRefreshData => Len(order_log') <= 1]_vars

\* The verdict of the strategy evaluation of the handler whose execute_trade calls
\* are in log: run_strategy calls execute_trade exactly when the verdict is a
\* signal, so without such a call the verdict was None or the run failed before it.
VerdictOf(log) ==
    IF \E e \in 1..Len(log) : log[e].run = 1
    THEN log[CHOOSE e \in 1..Len(log) : log[e].run = 1].signal
    ELSE "NONE"

\* C28 as stated: in every refresh (refresh_data or auto_refresh_data) a record
\* appended to the signal list has the kind of the verdict of that refresh's own
\* evaluation, and so has every execute_trade call; when the verdict is None or the
\* run failed before evaluating, nothing is appended and nothing is traded.
C28_RefreshUsesOwnVerdict ==
    [][runs' # runs =>
          /\ signals' # signals => signals'[Len(signals')].type = VerdictOf(exec_log')
          /\ \A e \in 1..Len(exec_log') : exec_log'[e].signal = VerdictOf(exec_log')]_vars

(***************************************************************************)
(* Claims about an unavailable volatility index (SpecFetch)                *)
(***************************************************************************)

\* C29 as stated: when the fetched Greeks snapshot carried no VIX value (self.vix is
\* then 0, which no snapshot with a VIX value gives), generate_signal does not
\* return BUY.
C29_NoBuyWithoutVix ==
    (sig_pc = "returned" /\ ~IsNone(greeks_data) /\ vix = Some(0)) => sig_result # "BUY"

(***************************************************************************)
(* Claims about the login (SpecAuth)                                       *)
(***************************************************************************)

\* C30 as stated: is_logged_in() is True only if some login() returned success and
\* no logout() has happened since; a login() that returns failure leaves
\* is_logged_in() False.
C30_LoggedInOnlyAfterSuccess ==
    is_logged_in(current_user, api) => granted

====
